---- MODULE Spec2Model ----
(***************************************************************************)
(* The Subscription reconciler of knative eventing                         *)
(* (pkg/reconciler/subscription/subscription.go) as a state machine.       *)
(*                                                                         *)
(* State: the Subscriptions (spec, deletion mark, status), the stored      *)
(* Channel resource, and for each Subscription the position of its         *)
(* reconcile pass.  A pass (ReconcileKind or FinalizeKind) is two steps:   *)
(* the first locates the Channel (getChannel) and, on the active path,     *)
(* resolves the destinations; the second synchronises the entry into the   *)
(* Channel (patch) and folds the Channel's status back.  Between the two   *)
(* steps other Subscriptions' passes and the environment may act on the    *)
(* stored Channel: the platform serialises passes per Subscription only.   *)
(***************************************************************************)
EXTENDS Naturals, Sequences, FiniteSets

\* ---------------------------------------------------------------- bounds
\* Generations a Subscription's spec can go through (spec updates).
MaxGen == 2

\* ------------------------------------------------------------ vocabulary
Nil == "nil"

\* Reasons of the corev1.Events emitted and of the conditions set.
physicalChannelSyncFailed == "PhysicalChannelSyncFailed"
subscriptionNotMarkedReadyByChannel == "SubscriptionNotMarkedReadyByChannel"
channelReferenceFailed == "ChannelReferenceFailed"
subscriberResolveFailed == "SubscriberResolveFailed"
replyResolveFailed == "ReplyResolveFailed"
deadLetterSinkResolveFailed == "DeadLetterSinkResolveFailed"

\* A pkgreconciler.Event (or a plain error); NoEvent is the nil event.
NoEvent == [type |-> "none", reason |-> ""]
NewEvent(type, reason) == [type |-> type, reason |-> reason]
\* A plain error (not a reconciler event): NotFound from a lister or the API
\* server, or any other failure.
PlainError(what) == [type |-> "error", reason |-> what]
IsNotFound(err) == err.type = "error" /\ err.reason = "NotFound"

\* A condition of the Subscription's condition set.
Cond(status, reason) == [status |-> status, reason |-> reason]

\* ------------------------------------------------ Subscription status marks
MarkReferencesResolved(sub) ==
    [sub EXCEPT !.status.refs = Cond("True", "")]
MarkReferencesResolvedUnknown(sub, reason) ==
    [sub EXCEPT !.status.refs = Cond("Unknown", reason)]
MarkReferencesNotResolved(sub, reason) ==
    [sub EXCEPT !.status.refs = Cond("False", reason)]
MarkAddedToChannel(sub) ==
    [sub EXCEPT !.status.added = Cond("True", "")]
MarkNotAddedToChannel(sub, reason) ==
    [sub EXCEPT !.status.added = Cond("False", reason)]
MarkChannelReady(sub) ==
    [sub EXCEPT !.status.ready = Cond("True", "")]
MarkChannelUnknown(sub, reason) ==
    [sub EXCEPT !.status.ready = Cond("Unknown", reason)]
MarkChannelFailed(sub, reason) ==
    [sub EXCEPT !.status.ready = Cond("False", reason)]
IsAddedToChannel(sub) == sub.status.added.status = "True"

\* A delivery policy (eventingduckv1.DeliverySpec).  nonnil tells a nil
\* pointer from an allocated policy; every field is Nil when unset.
NilDelivery ==
    [nonnil |-> FALSE, deadLetterSink |-> Nil, backoffPolicy |-> Nil,
     retry |-> Nil, backoffDelay |-> Nil, timeout |-> Nil, retryAfterMax |-> Nil]
EmptyDelivery == [NilDelivery EXCEPT !.nonnil = TRUE]

\* ------------------------------------------------- destination resolution
\* A Destination is "nil" (no pointer), "empty" (the zero Destination),
\* "ref" (an object reference) or "uri" (a direct address).
isNilOrEmptyDestination(destination) ==
    destination = Nil \/ destination = "empty"

\* The result of a resolution step: the Subscription as left by the step,
\* the event returned and the DestinationResolver calls made, in order
\* (which destination, its value, and what the resolver answered).
Step(sub, event, calls) == [sub |-> sub, event |-> event, calls |-> calls]

\* rr is what the collaborators answer in this pass: rr.subscriber, rr.reply
\* and rr.dls are the DestinationResolver's answers (an address, or "fail"),
\* rr.group is "off" (feature gate disabled), "ok" or "fail" (ResolveGroup).
\* A subscriber resolution that leaves the address alone when there is no
\* subscriber.
resolveSubscriberKeepStale(sub, rr) ==
    IF ~isNilOrEmptyDestination(sub.subscriber)
    THEN IF sub.subscriber = "ref" /\ rr.group = "fail"
         THEN Step(MarkReferencesNotResolved(sub, subscriberResolveFailed),
                   NewEvent("Warning", subscriberResolveFailed), <<>>)
         ELSE IF rr.subscriber = "fail"
              THEN Step(MarkReferencesNotResolved(sub, subscriberResolveFailed),
                        NewEvent("Warning", subscriberResolveFailed),
                        <<[what |-> "subscriber", dest |-> sub.subscriber,
                           answer |-> rr.subscriber]>>)
              ELSE Step([sub EXCEPT !.status.subscriberURI = rr.subscriber],
                        NoEvent,
                        <<[what |-> "subscriber", dest |-> sub.subscriber,
                           answer |-> rr.subscriber]>>)
    ELSE Step(sub, NoEvent, <<>>)

resolveSubscriber(sub, rr) ==
    IF ~isNilOrEmptyDestination(sub.subscriber)
    THEN IF sub.subscriber = "ref" /\ rr.group = "fail"
         THEN Step(MarkReferencesNotResolved(sub, subscriberResolveFailed),
                   NewEvent("Warning", subscriberResolveFailed), <<>>)
         ELSE IF rr.subscriber = "fail"
              THEN Step(MarkReferencesNotResolved(sub, subscriberResolveFailed),
                        NewEvent("Warning", subscriberResolveFailed),
                        <<[what |-> "subscriber", dest |-> sub.subscriber,
                      answer |-> rr.subscriber]>>)
              ELSE Step(IF sub.status.subscriberURI = Nil
                           \/ sub.status.subscriberURI # rr.subscriber
                        THEN [sub EXCEPT !.status.subscriberURI = rr.subscriber]
                        ELSE sub,
                        NoEvent,
                        <<[what |-> "subscriber", dest |-> sub.subscriber,
                      answer |-> rr.subscriber]>>)
    ELSE Step([sub EXCEPT !.status.subscriberURI = Nil], NoEvent, <<>>)

\* A reply resolution that leaves the address alone when there is no reply.
resolveReplyKeepStale(sub, rr) ==
    IF ~isNilOrEmptyDestination(sub.reply)
    THEN IF rr.reply = "fail"
         THEN Step(MarkReferencesNotResolved(sub, replyResolveFailed),
                   NewEvent("Warning", replyResolveFailed),
                   <<[what |-> "reply", dest |-> sub.reply,
                      answer |-> rr.reply]>>)
         ELSE Step([sub EXCEPT !.status.replyURI = rr.reply], NoEvent,
                   <<[what |-> "reply", dest |-> sub.reply,
                      answer |-> rr.reply]>>)
    ELSE Step(sub, NoEvent, <<>>)

resolveReply(sub, rr) ==
    IF ~isNilOrEmptyDestination(sub.reply)
    THEN IF rr.reply = "fail"
         THEN Step(MarkReferencesNotResolved(sub, replyResolveFailed),
                   NewEvent("Warning", replyResolveFailed),
                   <<[what |-> "reply", dest |-> sub.reply,
                      answer |-> rr.reply]>>)
         ELSE Step(IF sub.status.replyURI = Nil \/ sub.status.replyURI # rr.reply
                   THEN [sub EXCEPT !.status.replyURI = rr.reply]
                   ELSE sub,
                   NoEvent,
                   <<[what |-> "reply", dest |-> sub.reply,
                      answer |-> rr.reply]>>)
    ELSE Step([sub EXCEPT !.status.replyURI = Nil], NoEvent, <<>>)

\* A dead-letter resolution that falls back to the Channel's sink when the
\* Subscription's own cannot be resolved.
resolveDeadLetterSinkOrFallBack(sub, channel, rr) ==
    IF sub.delivery.nonnil /\ sub.delivery.deadLetterSink # Nil /\ rr.dls # "fail"
    THEN Step([sub EXCEPT !.status.deadLetterSinkURI = rr.dls], NoEvent,
              <<[what |-> "dls", dest |-> sub.delivery.deadLetterSink,
                 answer |-> rr.dls]>>)
    ELSE IF channel.dlsURI # Nil
         THEN Step([sub EXCEPT !.status.deadLetterSinkURI = channel.dlsURI],
                   NoEvent,
                   IF sub.delivery.nonnil /\ sub.delivery.deadLetterSink # Nil
                   THEN <<[what |-> "dls", dest |-> sub.delivery.deadLetterSink,
                           answer |-> rr.dls]>>
                   ELSE <<>>)
         ELSE IF (sub.delivery.nonnil /\ sub.delivery.deadLetterSink # Nil)
                    \/ (channel.delivery.nonnil
                           /\ channel.delivery.deadLetterSink # Nil)
              THEN Step(MarkReferencesNotResolved(
                            [sub EXCEPT !.status.deadLetterSinkURI = Nil],
                            deadLetterSinkResolveFailed),
                        NewEvent("Warning", deadLetterSinkResolveFailed),
                        IF sub.delivery.nonnil /\ sub.delivery.deadLetterSink # Nil
                        THEN <<[what |-> "dls",
                                dest |-> sub.delivery.deadLetterSink,
                                answer |-> rr.dls]>>
                        ELSE <<>>)
              ELSE Step([sub EXCEPT !.status.deadLetterSinkURI = Nil], NoEvent,
                        <<>>)

\* The Subscription's own dead-letter sink first, else the Channel's
\* already resolved one (channel.dlsURI is channel.Status.DeadLetterSinkURI).
resolveDeadLetterSink(sub, channel, rr) ==
    IF sub.delivery.nonnil /\ sub.delivery.deadLetterSink # Nil
    THEN IF rr.dls = "fail"
         THEN Step(MarkReferencesNotResolved(
                       [sub EXCEPT !.status.deadLetterSinkURI = Nil],
                       deadLetterSinkResolveFailed),
                   NewEvent("Warning", deadLetterSinkResolveFailed),
                   <<[what |-> "dls", dest |-> sub.delivery.deadLetterSink,
                      answer |-> rr.dls]>>)
         ELSE Step([sub EXCEPT !.status.deadLetterSinkURI = rr.dls], NoEvent,
                   <<[what |-> "dls", dest |-> sub.delivery.deadLetterSink,
                      answer |-> rr.dls]>>)
    ELSE IF channel.delivery.nonnil /\ channel.delivery.deadLetterSink # Nil
         THEN IF channel.dlsURI # Nil
              THEN Step([sub EXCEPT !.status.deadLetterSinkURI = channel.dlsURI],
                        NoEvent, <<>>)
              ELSE Step(MarkReferencesNotResolved(
                            [sub EXCEPT !.status.deadLetterSinkURI = Nil],
                            deadLetterSinkResolveFailed),
                        NewEvent("Warning", deadLetterSinkResolveFailed), <<>>)
         ELSE Step([sub EXCEPT !.status.deadLetterSinkURI = Nil], NoEvent, <<>>)

\* Subscriber, then reply, then dead-letter sink; the first failure returns.
\* (The stage is written as a chain: each link is given the result of the
\* step before it and returns it when that step failed.)
\* An end of the stage that marks the references resolved whatever the
\* dead-letter resolution returned.
ThenMarkResolvedAnyway(calls, r3) ==
    Step(MarkReferencesResolved(r3.sub), NoEvent, calls \o r3.calls)

ThenMarkResolved(calls, r3) ==
    IF r3.event # NoEvent
    THEN Step(r3.sub, r3.event, calls \o r3.calls)
    ELSE Step(MarkReferencesResolved(r3.sub), NoEvent, calls \o r3.calls)

\* A stage that goes on to the dead-letter sink whatever the reply
\* resolution returned.
ThenDeadLetterSinkRegardless(calls, r2, channel, rr) ==
    ThenMarkResolved(calls \o r2.calls,
                     resolveDeadLetterSink(r2.sub, channel, rr))

ThenDeadLetterSink(calls, r2, channel, rr) ==
    IF r2.event # NoEvent
    THEN Step(r2.sub, r2.event, calls \o r2.calls)
    ELSE ThenMarkResolved(calls \o r2.calls,
                          resolveDeadLetterSink(r2.sub, channel, rr))

\* A stage that goes on to the reply whatever the subscriber resolution
\* returned.
ThenReplyRegardless(r1, channel, rr) ==
    ThenDeadLetterSink(r1.calls, resolveReply(r1.sub, rr), channel, rr)

ThenReply(r1, channel, rr) ==
    IF r1.event # NoEvent
    THEN r1
    ELSE ThenDeadLetterSink(r1.calls, resolveReply(r1.sub, rr), channel, rr)

resolveSubscriptionURIs(sub, channel, rr) ==
    ThenReply(resolveSubscriber(MarkReferencesResolvedUnknown(sub, "Resolving"), rr),
              channel, rr)

\* ------------------------------------------------------- delivery policy
\* A test that overlooks retryAfterMax.
AnyRetryFieldButRetryAfterMax(d) ==
    \/ d.backoffDelay # Nil
    \/ d.retry # Nil
    \/ d.backoffPolicy # Nil
    \/ d.timeout # Nil

AnyRetryField(d) ==
    \/ d.backoffDelay # Nil
    \/ d.retry # Nil
    \/ d.backoffPolicy # Nil
    \/ d.timeout # Nil
    \/ d.retryAfterMax # Nil

\* delivery with the five retry-related fields of src copied over it,
\* allocated first when it is nil.
CopyRetryFields(delivery, src) ==
    [(IF delivery.nonnil THEN delivery ELSE EmptyDelivery) EXCEPT
        !.backoffPolicy = src.backoffPolicy,
        !.retry = src.retry,
        !.backoffDelay = src.backoffDelay,
        !.timeout = src.timeout,
        !.retryAfterMax = src.retryAfterMax]

\* The policy holding only the Subscription's resolved dead-letter sink; nil
\* when there is none.
\* A policy that never takes up the resolved dead-letter sink.
DeadLetterDropped(sub) == NilDelivery

DeadLetterOnly(sub) ==
    IF sub.status.deadLetterSinkURI # Nil
    THEN [EmptyDelivery EXCEPT !.deadLetterSink = sub.status.deadLetterSinkURI]
    ELSE NilDelivery

deliverySpec(sub, channel) ==
    IF ~sub.delivery.nonnil /\ channel.delivery.nonnil
    THEN IF AnyRetryField(channel.delivery)
         THEN CopyRetryFields(DeadLetterOnly(sub), channel.delivery)
         ELSE DeadLetterOnly(sub)
    ELSE IF sub.delivery.nonnil /\ AnyRetryField(sub.delivery)
         THEN CopyRetryFields(DeadLetterOnly(sub), sub.delivery)
         ELSE DeadLetterOnly(sub)

\* ------------------------------------------------------------ channel sync
\* The index of the first element of list with this UID, 0 when there is none.
IndexOfUID(list, uid) ==
    IF \E i \in 1..Len(list) : list[i].uid = uid
    THEN CHOOSE i \in 1..Len(list) :
            /\ list[i].uid = uid
            /\ \A j \in 1..(i - 1) : list[j].uid # uid
    ELSE 0

HasUID(list, uid) == IndexOfUID(list, uid) # 0

\* The list without its element at index i.
RemoveAt(list, i) ==
    [j \in 1..(Len(list) - 1) |-> IF j < i THEN list[j] ELSE list[j + 1]]

\* A removal that takes the head of the list whenever the UID is in it.
updateChannelRemoveHead(channel, sub) ==
    IF HasUID(channel.subscribers, sub.uid)
    THEN [channel EXCEPT !.subscribers = RemoveAt(channel.subscribers, 1)]
    ELSE channel

updateChannelRemoveSubscription(channel, sub) ==
    LET i == IndexOfUID(channel.subscribers, sub.uid)
    IN  IF i # 0
        THEN [channel EXCEPT !.subscribers = RemoveAt(channel.subscribers, i)]
        ELSE channel

\* The entry a Subscription publishes (eventingduckv1.SubscriberSpec).
SubscriberSpec(sub, channel) ==
    [uid |-> sub.uid,
     generation |-> sub.generation,
     subscriberURI |-> sub.status.subscriberURI,
     replyURI |-> sub.status.replyURI,
     delivery |-> deliverySpec(sub, channel)]

\* An addition that leaves an entry already in the list as it is.
updateChannelAddWhenAbsent(channel, sub) ==
    IF HasUID(channel.subscribers, sub.uid)
    THEN channel
    ELSE [channel EXCEPT
             !.subscribers = Append(channel.subscribers,
                                    SubscriberSpec(sub, channel))]

\* An addition that appends the entry whether or not the UID is in the list.
updateChannelAddAlways(channel, sub) ==
    [channel EXCEPT
        !.subscribers = Append(channel.subscribers, SubscriberSpec(sub, channel))]

updateChannelAddSubscription(channel, sub) ==
    LET i == IndexOfUID(channel.subscribers, sub.uid)
    IN  IF i # 0
        THEN [channel EXCEPT !.subscribers[i] = SubscriberSpec(sub, channel)]
        ELSE [channel EXCEPT
                 !.subscribers = Append(channel.subscribers,
                                        SubscriberSpec(sub, channel))]

\* A JSON merge patch (types.MergePatchType) of the Channelable: the changed
\* fields only, and a changed array whole (a merge patch cannot address the
\* elements of an array).  The sync changes no field but spec.subscribers.
EmptyPatch == [fields |-> {}, subscribers |-> <<>>]
CreateMergePatch(before, after) ==
    IF before.subscribers = after.subscribers
    THEN EmptyPatch
    ELSE [fields |-> {"spec.subscribers"}, subscribers |-> after.subscribers]

\* len(patch) < 2: no patch is that short, "{}" has two bytes.
PatchIsShorterThanEmpty(patch) == FALSE

\* len(patch) <= 2: the patch is "{}".
PatchIsEmpty(patch) == patch.fields = {}

\* The API server applying a merge patch to the stored resource: each field
\* the patch names is replaced by the patch's value; no precondition on the
\* stored version is sent or checked.
ApplyMergePatch(stored, patch) ==
    IF "spec.subscribers" \in patch.fields
    THEN [stored EXCEPT !.subscribers = patch.subscribers]
    ELSE stored

\* The part of the stored resource a Channelable read returns.
Channelable(stored) ==
    [subscribers |-> stored.subscribers,
     delivery |-> stored.delivery,
     statusSubs |-> stored.statusSubs,
     dlsURI |-> stored.dlsURI]

\* fault is what goes wrong in the write path of this pass: "none",
\* "client" (no dynamic resource client) or "patch" (the API server refuses
\* the patch).  A patch against a Channel that no longer exists is NotFound.
\* calls counts the Patch requests sent and answer is the API server's
\* answer to it ("none" when no request was sent).
PatchResult(patched, err, stored, calls, answer) ==
    [patched |-> patched, err |-> err, stored |-> stored, calls |-> calls,
     answer |-> answer]

\* The working copy of the Channel with the Subscription's entry synced.
WorkingCopy(channel, sub) ==
    IF ~sub.deleted
    THEN updateChannelAddSubscription(channel, sub)
    ELSE updateChannelRemoveSubscription(channel, sub)

\* The patch sent, unless it is empty.
SendPatch(patch, stored, fault) ==
    IF PatchIsEmpty(patch)
    THEN PatchResult(FALSE, NoEvent, stored, 0, "none")
    ELSE IF fault = "client"
         THEN PatchResult(FALSE, PlainError("other"), stored, 0, "none")
         ELSE IF ~stored.exists
              THEN PatchResult(FALSE, PlainError("NotFound"), stored, 1, "NotFound")
              ELSE IF fault = "patch"
                   THEN PatchResult(FALSE, PlainError("other"), stored, 1, "error")
                   ELSE PatchResult(TRUE, NoEvent,
                                    ApplyMergePatch(stored, patch), 1, "ok")

\* An edit made on the located Channel object itself, without a copy.
EditedInPlace(channel, sub) ==
    [base |-> WorkingCopy(channel, sub), after |-> WorkingCopy(channel, sub)]

\* The two objects patchSubscription holds once the entry is synced: base,
\* the located Channel, and after, the deep copy that was edited.
Edited(channel, sub) ==
    [base |-> channel, after |-> WorkingCopy(channel, sub)]

\* The difference between the two.
PatchOf(e) == CreateMergePatch(e.base, e.after)

patchSubscription(channel, sub, stored, fault) ==
    SendPatch(PatchOf(Edited(channel, sub)), stored, fault)

\* A NotFound answer to the patch is no error when isDeleted.
TolerateNotFound(p, isDeleted) ==
    IF p.err # NoEvent
    THEN IF isDeleted /\ IsNotFound(p.err)
         THEN PatchResult(FALSE, NoEvent, p.stored, p.calls, p.answer)
         ELSE p
    ELSE p

syncPhysicalChannel(sub, channel, isDeleted, stored, fault) ==
    TolerateNotFound(patchSubscription(channel, sub, stored, fault), isDeleted)

\* The result of the sync stage: the Subscription, the event returned, the
\* stored Channel, and what the patch call (if any) answered.
SyncResult(sub, event, p) ==
    [sub |-> sub, event |-> event, stored |-> p.stored, calls |-> p.calls,
     patchErr |-> p.err, answer |-> p.answer]

\* A syncChannel that sets no condition after a patch that was applied.
MarkSyncedUnlessPatched(sub, p) ==
    IF p.err # NoEvent
    THEN SyncResult(MarkNotAddedToChannel(sub, physicalChannelSyncFailed),
                    NewEvent("Warning", physicalChannelSyncFailed), p)
    ELSE IF p.patched
         THEN SyncResult(sub, NewEvent("Normal", IF ~sub.deleted
                                                  THEN "SubscriberSync"
                                                  ELSE "SubscriberRemoved"), p)
         ELSE SyncResult(IF ~sub.deleted THEN MarkAddedToChannel(sub) ELSE sub,
                         NoEvent, p)

\* A syncChannel that returns the failure of the patch without recording it
\* in the status.
MarkSyncedUnlessFailed(sub, p) ==
    IF p.err # NoEvent
    THEN SyncResult(sub, NewEvent("Warning", physicalChannelSyncFailed), p)
    ELSE IF p.patched
         THEN IF ~sub.deleted
              THEN SyncResult(MarkAddedToChannel(sub),
                              NewEvent("Normal", "SubscriberSync"), p)
              ELSE SyncResult(sub, NewEvent("Normal", "SubscriberRemoved"), p)
         ELSE SyncResult(IF ~sub.deleted THEN MarkAddedToChannel(sub) ELSE sub,
                         NoEvent, p)

\* What syncChannel makes of the answer p of syncPhysicalChannel.
MarkSynced(sub, p) ==
    IF p.err # NoEvent
    THEN SyncResult(MarkNotAddedToChannel(sub, physicalChannelSyncFailed),
                    NewEvent("Warning", physicalChannelSyncFailed), p)
    ELSE IF p.patched
         THEN IF ~sub.deleted
              THEN SyncResult(MarkAddedToChannel(sub),
                              NewEvent("Normal", "SubscriberSync"), p)
              ELSE SyncResult(sub, NewEvent("Normal", "SubscriberRemoved"), p)
         ELSE SyncResult(IF ~sub.deleted THEN MarkAddedToChannel(sub) ELSE sub,
                         NoEvent, p)

syncChannel(channel, sub, stored, fault) ==
    MarkSynced(sub, syncPhysicalChannel(sub, channel, FALSE, stored, fault))

\* ------------------------------------------------------------ status fold
\* A match on the UID alone.
StatusMatchesUID(st, sub) == st.uid = sub.uid

\* The first status of the Channel with the Subscription's UID and current
\* generation; found tells whether there is one.
StatusMatches(st, sub) ==
    st.uid = sub.uid /\ st.observedGeneration = sub.generation

getSubStatus(sub, channel) ==
    IF \E i \in 1..Len(channel.statusSubs) : StatusMatches(channel.statusSubs[i], sub)
    THEN [found |-> TRUE,
          ready |-> channel.statusSubs[
                        CHOOSE i \in 1..Len(channel.statusSubs) :
                            /\ StatusMatches(channel.statusSubs[i], sub)
                            /\ \A j \in 1..(i - 1) :
                                  ~StatusMatches(channel.statusSubs[j], sub)].ready]
    ELSE [found |-> FALSE, ready |-> ""]

\* What checkChannelStatusForSubscription makes of the answer ss of
\* getSubStatus.
FoldStatus(sub, ss) ==
    IF ~ss.found
    THEN [sub |-> MarkChannelUnknown(sub, subscriptionNotMarkedReadyByChannel),
          event |-> NewEvent("Warning", subscriptionNotMarkedReadyByChannel)]
    ELSE [sub |-> CASE ss.ready = "True" -> MarkChannelReady(sub)
                    [] ss.ready = "Unknown" ->
                         MarkChannelUnknown(sub, subscriptionNotMarkedReadyByChannel)
                    [] ss.ready = "False" ->
                         MarkChannelFailed(sub, subscriptionNotMarkedReadyByChannel)
                    [] OTHER -> sub,
          event |-> NoEvent]

checkChannelStatusForSubscription(channel, sub) ==
    FoldStatus(sub, getSubStatus(sub, channel))

\* -------------------------------------------------------- channel location
\* One tracked fetch.  fault names what fails in this call, if anything:
\* "group" (ResolveGroup), "track" (the channelable tracker), "lister" (no
\* lister for the reference); the fetch itself answers NotFound when the
\* object does not exist.  ops lists the registrations and fetches made.
Fetch(err, ops) == [err |-> err, ops |-> ops]

\* A fetch that registers with the tracker only after it has read.
fetchThenTrack(obj, exists, fault) ==
    IF fault = "group"
    THEN Fetch(PlainError("other"), <<>>)
    ELSE IF fault = "lister"
         THEN Fetch(PlainError("other"), <<>>)
         ELSE IF fault = "track"
              THEN Fetch(NewEvent("Warning", "TrackerFailed"),
                         <<[op |-> "get", obj |-> obj]>>)
              ELSE Fetch(IF exists THEN NoEvent ELSE PlainError("NotFound"),
                         <<[op |-> "get", obj |-> obj],
                           [op |-> "track", obj |-> obj]>>)

trackAndFetchChannel(obj, exists, fault) ==
    IF fault = "group"
    THEN Fetch(PlainError("other"), <<>>)
    ELSE IF fault = "track"
         THEN Fetch(NewEvent("Warning", "TrackerFailed"), <<>>)
         ELSE IF fault = "lister"
              THEN Fetch(PlainError("other"), <<[op |-> "track", obj |-> obj]>>)
              ELSE Fetch(IF exists THEN NoEvent ELSE PlainError("NotFound"),
                         <<[op |-> "track", obj |-> obj],
                           [op |-> "get", obj |-> obj]>>)

\* The Channelable no read returned.
NoChannel ==
    [subscribers |-> <<>>, delivery |-> NilDelivery, statusSubs |-> <<>>,
     dlsURI |-> Nil]

Located(err, channel, ops) == [err |-> err, channel |-> channel, ops |-> ops]

\* The fault of the n-th tracked fetch of a pass whose fault is fl.
FaultOf(fl, n) ==
    CASE fl = (IF n = 1 THEN "group1" ELSE "group2") -> "group"
      [] fl = (IF n = 1 THEN "track1" ELSE "track2") -> "track"
      [] fl = (IF n = 1 THEN "lister1" ELSE "lister2") -> "lister"
      [] OTHER -> "none"

\* stored.class is "none" when spec.channel names the Channelable itself,
\* else the state of the channel-class object (messaging Channel) it names:
\* "notready", "noref" (ready, no backing channel published) or "ready".
\* The registration and the typed fetch of the channel-class object.
ClassOps ==
    <<[op |-> "track", obj |-> "class"], [op |-> "get", obj |-> "class"]>>

\* The check that the object fetched is a Channelable.
AsChannelable(stored, fl, ops) ==
    IF fl = "convert"
    THEN Located(PlainError("other"), NoChannel, ops)
    ELSE Located(NoEvent, Channelable(stored), ops)

\* The backing channel, fetched (t2) once the channel-class object is ready.
ThenBacking(stored, fl, ops, t2) ==
    IF t2.err # NoEvent
    THEN Located(t2.err, NoChannel, ops \o t2.ops)
    ELSE AsChannelable(stored, fl, ops \o t2.ops)

\* A location that asks only whether the channel-class object is ready, not
\* whether it has published its backing channel.
ThenClassIfReady(stored, fl, t1) ==
    IF t1.err # NoEvent
    THEN Located(t1.err, NoChannel, t1.ops)
    ELSE IF stored.class # "none"
         THEN IF fl = "trackref"
              THEN Located(PlainError("other"), NoChannel, t1.ops)
              ELSE IF stored.class = "notready"
                   THEN Located(PlainError("channel is not ready"), NoChannel,
                                t1.ops \o ClassOps)
                   ELSE ThenBacking(stored, fl, t1.ops \o ClassOps,
                                    trackAndFetchChannel("backing", stored.exists,
                                                         FaultOf(fl, 2)))
         ELSE AsChannelable(stored, fl, t1.ops)

\* What follows the first fetch t1.
ThenClass(stored, fl, t1) ==
    IF t1.err # NoEvent
    THEN Located(t1.err, NoChannel, t1.ops)
    ELSE IF stored.class # "none"
         THEN IF fl = "trackref"
              THEN Located(PlainError("other"), NoChannel, t1.ops)
              ELSE IF stored.class \in {"notready", "noref"}
                   THEN Located(PlainError("channel is not ready"), NoChannel,
                                t1.ops \o ClassOps)
                   ELSE ThenBacking(stored, fl, t1.ops \o ClassOps,
                                    trackAndFetchChannel("backing", stored.exists,
                                                         FaultOf(fl, 2)))
         ELSE AsChannelable(stored, fl, t1.ops)

getChannel(sub, stored, fl) ==
    ThenClass(stored, fl,
              trackAndFetchChannel("ref", stored.exists, FaultOf(fl, 1)))

\* ------------------------------------------------------------ the handlers
\* What the first step of a pass leaves: the Subscription, the event
\* returned if the pass ended there (done), the located Channel, the stages
\* run, the stage that failed, the resolver calls and the location's ops.
FirstHalf(sub, event, done, channel, stages, failed, calls, ops) ==
    [sub |-> sub, event |-> event, done |-> done, channel |-> channel,
     stages |-> stages, failed |-> failed, calls |-> calls, ops |-> ops]

\* What the second step leaves.
SecondHalf(sub, event, stored, stages, failed, s) ==
    [sub |-> sub, event |-> event, stored |-> stored, stages |-> stages,
     failed |-> failed, calls |-> s.calls, patchErr |-> s.patchErr,
     answer |-> s.answer]

\* ReconcileKind up to the end of the resolution stage.
\* The resolution stage's outcome r as the outcome of the first step.
AfterResolve(g, r) ==
    IF r.event # NoEvent
    THEN FirstHalf(r.sub, r.event, TRUE, NoChannel,
                   <<"locate", "resolve">>, "resolve", r.calls, g.ops)
    ELSE FirstHalf(r.sub, NoEvent, FALSE, g.channel,
                   <<"locate", "resolve">>, "none", r.calls, g.ops)

\* What ReconcileKind does with the answer g of getChannel.
AfterLocate(sub, g, rr) ==
    IF g.err # NoEvent
    THEN FirstHalf(MarkReferencesResolvedUnknown(sub, channelReferenceFailed),
                   NewEvent("Warning", channelReferenceFailed), TRUE,
                   NoChannel, <<"locate">>, "locate", <<>>, g.ops)
    ELSE AfterResolve(g, resolveSubscriptionURIs(sub, g.channel, rr))

ReconcileKindLocate(sub, stored, fl, rr) ==
    AfterLocate(sub, getChannel(sub, stored, fl), rr)

\* ReconcileKind from the sync stage on.
\* The status stage's outcome c as the outcome of the second step.
AfterStatus(s, c) ==
    SecondHalf(c.sub, c.event, s.stored, <<"sync", "status">>,
               IF c.event # NoEvent THEN "status" ELSE "none", s)

\* A ReconcileKind that folds the Channel's status before it returns the
\* sync stage's event.
AfterSyncFoldFirst(channel, s) ==
    IF s.event # NoEvent
    THEN SecondHalf(checkChannelStatusForSubscription(channel, s.sub).sub,
                    s.event, s.stored, <<"sync", "status">>,
                    IF s.event.type = "Warning" THEN "sync" ELSE "none", s)
    ELSE AfterStatus(s, checkChannelStatusForSubscription(channel, s.sub))

\* A ReconcileKind that goes on to the status stage after a patch that was
\* applied, and returns the sync stage's event after it.
AfterSyncFoldWhenPatched(channel, s) ==
    IF s.event # NoEvent
    THEN IF s.event.type = "Warning"
         THEN SecondHalf(s.sub, s.event, s.stored, <<"sync">>, "sync", s)
         ELSE SecondHalf(checkChannelStatusForSubscription(channel, s.sub).sub,
                         s.event, s.stored, <<"sync", "status">>, "none", s)
    ELSE AfterStatus(s, checkChannelStatusForSubscription(channel, s.sub))

\* What ReconcileKind does with the answer s of syncChannel.
AfterSync(channel, s) ==
    IF s.event # NoEvent
    THEN SecondHalf(s.sub, s.event, s.stored, <<"sync">>,
                    IF s.event.type = "Warning" THEN "sync" ELSE "none", s)
    ELSE AfterStatus(s, checkChannelStatusForSubscription(channel, s.sub))

ReconcileKindSync(sub, channel, stored, fault) ==
    AfterSync(channel, syncChannel(channel, sub, stored, fault))

\* FinalizeKind up to the decision to remove the entry.
\* What FinalizeKind does with the answer g of getChannel.
FinalizeAfterLocate(sub, g) ==
    IF g.err # NoEvent
    THEN IF IsNotFound(g.err)
         THEN FirstHalf(sub, NoEvent, TRUE, NoChannel, <<"locate">>,
                        "none", <<>>, g.ops)
         ELSE FirstHalf(sub, g.err, TRUE, NoChannel, <<"locate">>,
                        "locate", <<>>, g.ops)
    ELSE IF IsAddedToChannel(sub)
         THEN FirstHalf(sub, NoEvent, FALSE, g.channel, <<"locate">>,
                        "none", <<>>, g.ops)
         ELSE FirstHalf(sub, NoEvent, TRUE, NoChannel, <<"locate">>,
                        "none", <<>>, g.ops)

FinalizeKindLocate(sub, stored, fl) ==
    FinalizeAfterLocate(sub, getChannel(sub, stored, fl))

\* FinalizeKind's removal of the entry.
FinalizeAfterSync(s) ==
    SecondHalf(s.sub, s.event, s.stored, <<"sync">>,
               IF s.event.type = "Warning" THEN "sync" ELSE "none", s)

FinalizeKindSync(sub, channel, stored, fault) ==
    FinalizeAfterSync(syncChannel(channel, sub, stored, fault))

\* The generated reconciler clears the finalizer when FinalizeKind returns
\* nil or a Normal event.
FinalizeSucceeded(event) == event = NoEvent \/ event.type = "Normal"

\* ------------------------------------------------------------------ state
VARIABLES
    sub,      \* the Subscriptions, by UID: spec, deletion mark, status
    stored,   \* the Channel resource as stored by the platform
    pc,       \* per Subscription: "idle" (between passes) or "sync"
    located,  \* per Subscription: the Channel copy its running pass holds
    pass,     \* per Subscription: the record of its current or last pass
    hist      \* per Subscription: what is remembered across passes

vars == <<sub, stored, pc, located, pass, hist>>

Subs == DOMAIN sub

InitialConditions ==
    [refs |-> Cond("Unknown", ""), added |-> Cond("Unknown", ""),
     ready |-> Cond("Unknown", ""),
     subscriberURI |-> Nil, replyURI |-> Nil, deadLetterSinkURI |-> Nil]

\* A Subscription just created: generation 1, not deleted, conditions
\* initialised, no address resolved yet.
NewSubscription(uid, subscriber, reply, delivery) ==
    [uid |-> uid, generation |-> 1, deleted |-> FALSE, finalized |-> FALSE,
     subscriber |-> subscriber, reply |-> reply, delivery |-> delivery,
     status |-> InitialConditions]

\* A Channel just created, of the given class, with no subscribers.
NewChannel(class, delivery, dlsURI) ==
    [exists |-> TRUE, class |-> class, subscribers |-> <<>>,
     delivery |-> delivery, statusSubs |-> <<>>, dlsURI |-> dlsURI]

\* What a pass record keeps of the Subscription's status and of the Channel.
PriorOf(s) ==
    [subscriberURI |-> s.status.subscriberURI,
     replyURI |-> s.status.replyURI,
     deadLetterSinkURI |-> s.status.deadLetterSinkURI]
SeenOf(channel) ==
    [class |-> channel.class, delivery |-> channel.delivery,
     dlsURI |-> channel.dlsURI]

\* The record of a pass at its start.  event, stages, failed, calls (the
\* resolver's), ops (the location's), patchCalls, patchErr and answer are
\* what the handler returned and did; the rest is what the state was:
\* readyBefore the channel-readiness condition at the start, channelGone
\* whether the Channel existed at location, startedQuiet and repeat whether
\* nothing changed since the Subscription's last completed sync, raced
\* whether the stored subscriber list at the sync step differed from the one
\* located, hadEntry whether the located list held the UID, wasAdded the
\* added-to-channel status at the start, absentAtReturn whether the UID was
\* out of the stored list (or the Channel gone) when the pass returned,
\* before the resolved addresses the pass received, seen the class, delivery default and resolved dead-letter
\* sink of the stored Channel when the pass located it.
NewPass(kind, s) ==
    [kind |-> kind, event |-> NoEvent, stages |-> <<>>, failed |-> "none",
     calls |-> <<>>, ops |-> <<>>, patchCalls |-> 0, patchErr |-> NoEvent,
     answer |-> "none", readyBefore |-> s.status.ready, channelGone |-> FALSE,
     startedQuiet |-> FALSE, repeat |-> FALSE, raced |-> FALSE,
     absentAtReturn |-> FALSE, hadEntry |-> FALSE, wasAdded |-> FALSE,
     before |-> PriorOf(s), seen |-> SeenOf(NewChannel("none", NilDelivery, Nil))]

\* quiet: nothing changed since the last completed sync; everAdded: a pass
\* has marked the Subscription added to the channel; awaitedSink: a pass
\* failed because the Channel had not published its dead-letter sink.
NoHistory == [quiet |-> FALSE, everAdded |-> FALSE, awaitedSink |-> FALSE]

\* What the collaborators may do to a pass: the answers of the resolvers,
\* the faults of the location and of the write path.
FullEnv ==
    [answers |-> [subscriber : {"u1", "u2", "fail"}, reply : {"fail"},
                  dls : {"fail"}, group : {"off", "fail"}],
     locateFaults |-> {"none", "track1"},
     patchFaults |-> {"none", "client", "patch"}]
\* Every destination resolves and no call fails.
ListEnv ==
    [answers |-> [subscriber : {"u1"}, reply : {"fail"}, dls : {"fail"},
                  group : {"off"}],
     locateFaults |-> {"none"},
     patchFaults |-> {"none"}]
\* Every destination resolves and the location does not fail; the API
\* server may still refuse a patch.
CalmEnv ==
    [answers |-> [subscriber : {"u1"}, reply : {"fail"}, dls : {"fail"},
                  group : {"off"}],
     locateFaults |-> {"none"},
     patchFaults |-> {"none", "patch"}]
\* The readiness the Channel's controller reports in Spec.
ReadyValues == {"True", "False"}

\* An entry of a Subscription this model does not run.
ForeignEntry ==
    [uid |-> "X", generation |-> 1, subscriberURI |-> "u1", replyURI |-> Nil,
     delivery |-> NilDelivery]

\* The Subscriptions uids and the Channel, all just created.
InitWith(uids, lists) ==
    /\ sub = [u \in uids |-> NewSubscription(u, "ref", Nil, NilDelivery)]
    /\ \E l \in lists :
          stored = [NewChannel("none", NilDelivery, Nil) EXCEPT !.subscribers = l]
    /\ pc = [u \in uids |-> "idle"]
    /\ located = [u \in uids |-> NoChannel]
    /\ pass = [u \in uids |->
                 NewPass("none", NewSubscription(u, "ref", Nil, NilDelivery))]
    /\ hist = [u \in uids |-> NoHistory]

\* One Subscription to a Channel that may already serve another one.
Init == InitWith({"A"}, {<<>>, <<ForeignEntry>>})

\* Two Subscriptions to one Channel without subscribers.
InitRace == InitWith({"A", "B"}, {<<>>})

\* ---------------------------------------------------------------- actions
\* A write to the stored Channel ends every Subscription's quiet period.
Disturbed(h, changed) ==
    [u \in DOMAIN h |-> IF changed THEN [h[u] EXCEPT !.quiet = FALSE] ELSE h[u]]

\* The resolved addresses of a and b are the same.
SameAddresses(a, b) ==
    /\ a.status.subscriberURI = b.status.subscriberURI
    /\ a.status.replyURI = b.status.replyURI
    /\ a.status.deadLetterSinkURI = b.status.deadLetterSinkURI

\* First step of a ReconcileKind pass of s.
ReconcileLocate(s, env) ==
    /\ pc[s] = "idle"
    /\ ~sub[s].deleted
    /\ \E fl \in env.locateFaults, rr \in env.answers :
          \E r \in {ReconcileKindLocate(sub[s], stored, fl, rr)} :
              /\ sub' = [sub EXCEPT ![s] = r.sub]
              /\ pc' = [pc EXCEPT ![s] = IF r.done THEN "idle" ELSE "sync"]
              /\ located' = [located EXCEPT ![s] = r.channel]
              /\ pass' = [pass EXCEPT ![s] =
                            [NewPass("reconcile", sub[s]) EXCEPT
                                !.event = r.event, !.stages = r.stages,
                                !.failed = r.failed, !.calls = r.calls,
                                !.ops = r.ops,
                                !.channelGone = ~stored.exists,
                                !.seen = SeenOf(stored),
                                !.startedQuiet =
                                    /\ hist[s].quiet
                                    /\ ~r.done
                                    /\ SameAddresses(r.sub, sub[s])]]
              /\ hist' = [hist EXCEPT
                            ![s].quiet = IF r.done THEN FALSE ELSE @,
                            ![s].awaitedSink =
                                \/ @
                                \/ /\ r.event.reason = deadLetterSinkResolveFailed
                                   /\ \A i \in 1..Len(r.calls) :
                                         r.calls[i].what # "dls"]
    /\ UNCHANGED stored

\* Second step of a ReconcileKind pass of s.
ReconcileSync(s, env) ==
    /\ pc[s] = "sync"
    /\ pass[s].kind = "reconcile"
    /\ \E fault \in env.patchFaults :
          \E r \in {ReconcileKindSync(sub[s], located[s], stored, fault)} :
              /\ sub' = [sub EXCEPT ![s] = r.sub]
              /\ stored' = r.stored
              /\ pass' = [pass EXCEPT ![s] =
                            [@ EXCEPT
                                !.event = r.event,
                                !.stages = @ \o r.stages,
                                !.failed = IF @ # "none" THEN @ ELSE r.failed,
                                !.patchCalls = r.calls,
                                !.patchErr = r.patchErr,
                                !.answer = r.answer,
                                !.repeat = pass[s].startedQuiet /\ hist[s].quiet,
                                !.raced = stored.subscribers # located[s].subscribers]]
              /\ hist' = [u \in Subs |->
                            IF u = s
                            THEN [hist[s] EXCEPT
                                     !.quiet = r.failed # "sync",
                                     !.everAdded = @ \/ IsAddedToChannel(r.sub)]
                            ELSE Disturbed(hist, r.stored # stored)[u]]
    /\ pc' = [pc EXCEPT ![s] = "idle"]
    /\ located' = [located EXCEPT ![s] = NoChannel]

\* First step of a FinalizeKind pass of s; the pass ends here unless the
\* entry is to be removed.
FinalizeLocate(s, env) ==
    /\ pc[s] = "idle"
    /\ sub[s].deleted
    /\ ~sub[s].finalized
    /\ \E fl \in env.locateFaults :
          \E r \in {FinalizeKindLocate(sub[s], stored, fl)} :
              /\ sub' = [sub EXCEPT
                            ![s] = [r.sub EXCEPT
                                      !.finalized = r.done /\ FinalizeSucceeded(r.event)]]
              /\ pc' = [pc EXCEPT ![s] = IF r.done THEN "idle" ELSE "sync"]
              /\ located' = [located EXCEPT ![s] = r.channel]
              /\ pass' = [pass EXCEPT ![s] =
                            [NewPass("finalize", sub[s]) EXCEPT
                                !.event = r.event, !.stages = r.stages,
                                !.failed = r.failed, !.ops = r.ops,
                                !.channelGone = ~stored.exists,
                                !.seen = SeenOf(stored),
                                !.wasAdded = IsAddedToChannel(sub[s]),
                                !.absentAtReturn =
                                    \/ ~stored.exists
                                    \/ ~HasUID(stored.subscribers, s)]]
    /\ UNCHANGED <<stored, hist>>

\* Second step of a FinalizeKind pass of s: the removal.
FinalizeSync(s, env) ==
    /\ pc[s] = "sync"
    /\ pass[s].kind = "finalize"
    /\ \E fault \in env.patchFaults :
          \E r \in {FinalizeKindSync(sub[s], located[s], stored, fault)} :
              /\ sub' = [sub EXCEPT
                            ![s] = [r.sub EXCEPT !.finalized = FinalizeSucceeded(r.event)]]
              /\ stored' = r.stored
              /\ pass' = [pass EXCEPT ![s] =
                            [@ EXCEPT
                                !.event = r.event,
                                !.stages = @ \o r.stages,
                                !.failed = IF @ # "none" THEN @ ELSE r.failed,
                                !.patchCalls = r.calls,
                                !.patchErr = r.patchErr,
                                !.answer = r.answer,
                                !.raced = stored.subscribers # located[s].subscribers,
                                !.hadEntry = HasUID(located[s].subscribers, s),
                                !.absentAtReturn =
                                    \/ ~r.stored.exists
                                    \/ ~HasUID(r.stored.subscribers, s)]]
              /\ hist' = Disturbed(hist, r.stored # stored)
    /\ pc' = [pc EXCEPT ![s] = "idle"]
    /\ located' = [located EXCEPT ![s] = NoChannel]

\* The owner changes the Subscription's spec: the platform bumps generation.
UpdateSpec(s) ==
    /\ pc[s] = "idle"
    /\ ~sub[s].deleted
    /\ sub[s].generation < MaxGen
    /\ sub' = [sub EXCEPT ![s].generation = @ + 1]
    /\ hist' = [hist EXCEPT ![s].quiet = FALSE]
    /\ UNCHANGED <<stored, pc, located, pass>>

\* The owner deletes the Subscription: the platform sets the deletion
\* timestamp and keeps the object until its finalizer is cleared.
DeleteSub(s) ==
    /\ pc[s] = "idle"
    /\ ~sub[s].deleted
    /\ sub' = [sub EXCEPT ![s].deleted = TRUE]
    /\ hist' = [hist EXCEPT ![s].quiet = FALSE]
    /\ UNCHANGED <<stored, pc, located, pass>>

\* statuses with the status of uid replaced (or added at the end).
SetStatus(statuses, st) ==
    LET i == IndexOfUID(statuses, st.uid)
    IN  IF i # 0 THEN [statuses EXCEPT ![i] = st] ELSE Append(statuses, st)

\* The Channel's own controller reports on one of its subscribers.
ChannelReport(readyValues) ==
    /\ stored.exists
    /\ \E i \in 1..Len(stored.subscribers), r \in readyValues :
          stored' = [stored EXCEPT
                        !.statusSubs =
                            SetStatus(@, [uid |-> stored.subscribers[i].uid,
                                          observedGeneration |->
                                              stored.subscribers[i].generation,
                                          ready |-> r])]
    /\ hist' = Disturbed(hist, stored' # stored)
    /\ UNCHANGED <<sub, pc, located, pass>>

\* The Channel is deleted.
ChannelDelete ==
    /\ stored.exists
    /\ stored' = [stored EXCEPT !.exists = FALSE]
    /\ hist' = Disturbed(hist, TRUE)
    /\ UNCHANGED <<sub, pc, located, pass>>

Next ==
    \/ \E s \in Subs : ReconcileLocate(s, FullEnv)
    \/ \E s \in Subs : ReconcileSync(s, FullEnv)
    \/ \E s \in Subs : FinalizeLocate(s, FullEnv)
    \/ \E s \in Subs : FinalizeSync(s, FullEnv)
    \/ \E s \in Subs : UpdateSpec(s)
    \/ \E s \in Subs : DeleteSub(s)
    \/ ChannelReport(ReadyValues)
    \/ ChannelDelete

Spec == Init /\ [][Next]_vars

\* Concurrent passes of two Subscriptions against one Channel.
NextRace ==
    \/ \E s \in Subs : ReconcileLocate(s, CalmEnv)
    \/ \E s \in Subs : ReconcileSync(s, CalmEnv)
    \/ \E s \in Subs : FinalizeLocate(s, CalmEnv)
    \/ \E s \in Subs : FinalizeSync(s, CalmEnv)
    \/ \E s \in Subs : DeleteSub(s)
    \/ ChannelDelete

SpecRace == InitRace /\ [][NextRace]_vars

\* Two Subscriptions that are created, changed and deleted while they sync
\* with a Channel that may already serve a third one; no call fails.
InitList == InitWith({"A", "B"}, {<<>>, <<ForeignEntry>>})

NextList ==
    \/ \E s \in Subs : ReconcileLocate(s, ListEnv)
    \/ \E s \in Subs : ReconcileSync(s, ListEnv)
    \/ \E s \in Subs : FinalizeLocate(s, ListEnv)
    \/ \E s \in Subs : FinalizeSync(s, ListEnv)
    \/ \E s \in Subs : UpdateSpec(s)
    \/ \E s \in Subs : DeleteSub(s)

SpecList == InitList /\ [][NextList]_vars

\* ------------------------------------------------- a stable environment
\* Every destination resolves, always to the same address; nothing fails.
StableEnv ==
    [answers |-> [subscriber : {"u1"}, reply : {"fail"}, dls : {"fail"},
                  group : {"off"}],
     locateFaults |-> {"none"},
     patchFaults |-> {"none"}]

\* Statuses a Subscription may have been left with, and lists and subscriber
\* statuses a Channel may hold, when the environment becomes stable.
AnyCondition(reason) ==
    {Cond("Unknown", ""), Cond("True", ""), Cond("False", reason)}
AnyStatus ==
    [refs : AnyCondition(subscriberResolveFailed),
     added : AnyCondition(physicalChannelSyncFailed),
     ready : AnyCondition(subscriptionNotMarkedReadyByChannel),
     subscriberURI : {Nil, "u1", "u2"}, replyURI : {Nil},
     deadLetterSinkURI : {Nil}]
EntryOfA(generation, uri) ==
    [uid |-> "A", generation |-> generation, subscriberURI |-> uri,
     replyURI |-> Nil, delivery |-> NilDelivery]
AnyList ==
    {<<>>, <<ForeignEntry>>, <<EntryOfA(1, "u2")>>, <<EntryOfA(1, "u1")>>,
     <<ForeignEntry, EntryOfA(1, "u2")>>}
AnyReports ==
    {<<>>,
     <<[uid |-> "A", observedGeneration |-> 1, ready |-> "False"]>>,
     <<[uid |-> "A", observedGeneration |-> 1, ready |-> "True"]>>,
     <<[uid |-> "X", observedGeneration |-> 1, ready |-> "True"],
       [uid |-> "A", observedGeneration |-> MaxGen, ready |-> "Unknown"]>>}

\* One Subscription, of any generation and status, to a Channel with any
\* list.
InitLive ==
    /\ \E g \in 1..MaxGen, st \in AnyStatus :
          sub = [u \in {"A"} |->
                   [NewSubscription(u, "ref", Nil, NilDelivery) EXCEPT
                       !.generation = g, !.status = st]]
    /\ \E l \in AnyList, reports \in AnyReports :
          stored = [NewChannel("none", NilDelivery, Nil) EXCEPT
                       !.subscribers = l, !.statusSubs = reports]
    /\ pc = [u \in {"A"} |-> "idle"]
    /\ located = [u \in {"A"} |-> NoChannel]
    /\ pass = [u \in {"A"} |->
                 NewPass("none", NewSubscription(u, "ref", Nil, NilDelivery))]
    /\ hist = [u \in {"A"} |-> NoHistory]

\* The Subscription is reconciled again and again, and the Channel's
\* controller reports each subscriber it has taken up as ready.
NextLive ==
    \/ \E s \in Subs : ReconcileLocate(s, StableEnv)
    \/ \E s \in Subs : ReconcileSync(s, StableEnv)
    \/ ChannelReport({"True"})

\* The control loop runs a pass whenever one is due (every change of the
\* Channel and every failed pass re-queues the Subscription), a pass runs
\* to its end, and the Channel's controller reports.
SpecLive ==
    /\ InitLive
    /\ [][NextLive]_vars
    /\ WF_vars(\E s \in Subs : ReconcileLocate(s, StableEnv))
    /\ WF_vars(\E s \in Subs : ReconcileSync(s, StableEnv))
    /\ WF_vars(ChannelReport({"True"}))

\* ------------------------------------------------- the status fold alone
\* Statuses in a Channel's subscriber status list.
MaxStatuses == 2
FoldReadyValues == {"True", "Unknown", "False", ""}
AnyReport ==
    [uid : {"A", "X"}, observedGeneration : 1..MaxGen, ready : FoldReadyValues]
AnyReportList ==
    UNION {[1..n -> AnyReport] : n \in 0..MaxStatuses}

\* One Subscription of any generation, with any channel-readiness condition,
\* and a Channel with any subscriber status list.
InitFold ==
    /\ \E g \in 1..MaxGen,
          c \in {Cond("Unknown", ""), Cond("True", "")} :
          sub = [u \in {"A"} |->
                   [NewSubscription(u, "ref", Nil, NilDelivery) EXCEPT
                       !.generation = g, !.status.ready = c]]
    /\ \E reports \in AnyReportList :
          stored = [NewChannel("none", NilDelivery, Nil) EXCEPT
                       !.statusSubs = reports]
    /\ pc = [u \in {"A"} |-> "idle"]
    /\ located = [u \in {"A"} |-> NoChannel]
    /\ pass = [u \in {"A"} |->
                 NewPass("none", NewSubscription(u, "ref", Nil, NilDelivery))]
    /\ hist = [u \in {"A"} |-> NoHistory]

\* The status stage applied to the Subscription and the Channel.
Fold(s) ==
    /\ pc[s] = "idle"
    /\ \E c \in {checkChannelStatusForSubscription(Channelable(stored), sub[s])} :
          /\ sub' = [sub EXCEPT ![s] = c.sub]
          /\ pass' = [pass EXCEPT ![s] =
                        [NewPass("fold", sub[s]) EXCEPT
                            !.event = c.event, !.stages = <<"status">>,
                            !.failed = IF c.event # NoEvent THEN "status"
                                       ELSE "none"]]
    /\ pc' = [pc EXCEPT ![s] = "folded"]
    /\ UNCHANGED <<stored, located, hist>>

NextFold == \E s \in Subs : Fold(s)

SpecFold == InitFold /\ [][NextFold]_vars

\* ---------------------------------------- destinations and delivery
\* The resolvers answer with an address or fail; the Channel is found and
\* the API server accepts every patch.
ResolveEnv ==
    [answers |-> [subscriber : {"u1", "fail"}, reply : {"r1", "fail"},
                  dls : {"d1", "fail"}, group : {"off", "ok", "fail"}],
     locateFaults |-> {"none"},
     patchFaults |-> {"none"}]

\* The delivery policies a Subscription may declare: none, an allocated one
\* without fields, one with a dead-letter sink (a reference, or the zero
\* Destination), one with a retry count, one with both.
SubDeliveries ==
    {NilDelivery, EmptyDelivery,
     [EmptyDelivery EXCEPT !.deadLetterSink = "ref"],
     [EmptyDelivery EXCEPT !.deadLetterSink = "empty"],
     [EmptyDelivery EXCEPT !.retry = "s3"],
     [EmptyDelivery EXCEPT !.deadLetterSink = "ref", !.retry = "s3"]}

\* The delivery defaults a Channel may declare.
ChannelDefaults ==
    {NilDelivery,
     [EmptyDelivery EXCEPT !.deadLetterSink = "ref"],
     [EmptyDelivery EXCEPT !.timeout = "c9"],
     [EmptyDelivery EXCEPT !.deadLetterSink = "ref", !.timeout = "c9"]}

\* One Subscription with any destinations and delivery policy, whose status
\* holds the addresses of an earlier spec or none, to a Channel with any
\* delivery default that has not yet published its dead-letter sink.
InitResolve ==
    /\ \E subscriber \in {Nil, "empty", "ref", "uri"},
          reply \in {Nil, "empty", "uri"},
          delivery \in SubDeliveries,
          old \in {Nil, "old"} :
          sub = [u \in {"A"} |->
                   [NewSubscription(u, subscriber, reply, delivery) EXCEPT
                       !.status.subscriberURI = old,
                       !.status.replyURI = old,
                       !.status.deadLetterSinkURI = old]]
    /\ \E default \in ChannelDefaults :
          stored = NewChannel("none", default, Nil)
    /\ pc = [u \in {"A"} |-> "idle"]
    /\ located = [u \in {"A"} |-> NoChannel]
    /\ pass = [u \in {"A"} |->
                 NewPass("none", NewSubscription(u, "ref", Nil, NilDelivery))]
    /\ hist = [u \in {"A"} |-> NoHistory]

\* The Channel's controller publishes the address of the dead-letter sink
\* the Channel declares.
ChannelPublishSink ==
    /\ stored.exists
    /\ stored.delivery.nonnil
    /\ stored.delivery.deadLetterSink # Nil
    /\ stored.dlsURI = Nil
    /\ stored' = [stored EXCEPT !.dlsURI = "cu"]
    /\ hist' = Disturbed(hist, TRUE)
    /\ UNCHANGED <<sub, pc, located, pass>>

NextResolve ==
    \/ \E s \in Subs : ReconcileLocate(s, ResolveEnv)
    \/ \E s \in Subs : ReconcileSync(s, ResolveEnv)
    \/ ChannelPublishSink
    \/ ChannelReport({"True"})

SpecResolve == InitResolve /\ [][NextResolve]_vars

\* ------------------------------------------------- channel-class objects
\* The location may fail at each of its calls; resolution and the patch do
\* not.
ClassEnv ==
    [answers |-> [subscriber : {"u1"}, reply : {"fail"}, dls : {"fail"},
                  group : {"off"}],
     locateFaults |-> {"none", "group1", "track1", "lister1", "trackref",
                       "group2", "track2", "lister2", "convert"},
     patchFaults |-> {"none"}]

\* One Subscription to a Channelable named directly, or through a
\* channel-class object in any state.
InitClass ==
    /\ sub = [u \in {"A"} |-> NewSubscription(u, "ref", Nil, NilDelivery)]
    /\ \E class \in {"none", "notready", "noref", "ready"} :
          stored = NewChannel(class, NilDelivery, Nil)
    /\ pc = [u \in {"A"} |-> "idle"]
    /\ located = [u \in {"A"} |-> NoChannel]
    /\ pass = [u \in {"A"} |->
                 NewPass("none", NewSubscription(u, "ref", Nil, NilDelivery))]
    /\ hist = [u \in {"A"} |-> NoHistory]

\* The channel-class object's controller creates the backing channel and
\* publishes it: not ready, then ready.
ClassBecomesReady ==
    /\ stored.exists
    /\ stored.class \in {"notready", "noref"}
    /\ stored' = [stored EXCEPT !.class = "ready"]
    /\ hist' = Disturbed(hist, TRUE)
    /\ UNCHANGED <<sub, pc, located, pass>>

NextClass ==
    \/ \E s \in Subs : ReconcileLocate(s, ClassEnv)
    \/ \E s \in Subs : ReconcileSync(s, ClassEnv)
    \/ \E s \in Subs : FinalizeLocate(s, ClassEnv)
    \/ \E s \in Subs : FinalizeSync(s, ClassEnv)
    \/ \E s \in Subs : DeleteSub(s)
    \/ ClassBecomesReady
    \/ ChannelDelete

SpecClass == InitClass /\ [][NextClass]_vars

\* ------------------------------------------------ the delivery merge alone
\* Every delivery policy whose fields are unset or hold the value v: none,
\* or an allocated one with or without a dead-letter sink.
PoliciesOf(v) ==
    {NilDelivery} \cup
    [nonnil : {TRUE}, deadLetterSink : {Nil, "ref"}, backoffPolicy : {Nil, v},
     retry : {Nil, v}, backoffDelay : {Nil, v}, timeout : {Nil, v},
     retryAfterMax : {Nil, v}]

\* One Subscription with any delivery policy and a resolved dead-letter sink
\* or none, and a Channel with any delivery default.
InitDelivery ==
    /\ \E delivery \in PoliciesOf("s"), uri \in {Nil, "d1"} :
          sub = [u \in {"A"} |->
                   [NewSubscription(u, "ref", Nil, delivery) EXCEPT
                       !.status.subscriberURI = "u1",
                       !.status.deadLetterSinkURI = uri]]
    /\ \E default \in PoliciesOf("c") :
          stored = NewChannel("none", default, Nil)
    /\ pc = [u \in {"A"} |-> "idle"]
    /\ located = [u \in {"A"} |-> NoChannel]
    /\ pass = [u \in {"A"} |->
                 NewPass("none", NewSubscription(u, "ref", Nil, NilDelivery))]
    /\ hist = [u \in {"A"} |-> NoHistory]

\* The entry of s built into the subscriber list.
Publish(s) ==
    /\ pc[s] = "idle"
    /\ stored' = [stored EXCEPT
                     !.subscribers =
                         updateChannelAddSubscription(Channelable(stored),
                                                      sub[s]).subscribers]
    /\ pc' = [pc EXCEPT ![s] = "published"]
    /\ UNCHANGED <<sub, located, pass, hist>>

NextDelivery == \E s \in Subs : Publish(s)

SpecDelivery == InitDelivery /\ [][NextDelivery]_vars

\* ------------------------------------------------- the working copy alone
\* Entries a subscriber list may hold: of two other Subscriptions, and one
\* the Subscription published with an earlier address.
EntryOfY ==
    [uid |-> "Y", generation |-> 2, subscriberURI |-> "u3", replyURI |-> "r3",
     delivery |-> [EmptyDelivery EXCEPT !.retry = "s3"]]
EditEntries == {ForeignEntry, EntryOfY, EntryOfA(1, "u2")}

\* Every list of at most MaxList of them.
MaxList == 3
EditLists == UNION {[1..n -> EditEntries] : n \in 0..MaxList}

\* One Subscription, deleted or not, of any generation, and the Channel as
\* its pass located it: any list, a delivery default or none, one subscriber
\* status.
InitEdit ==
    /\ \E g \in 1..MaxGen, deleted \in BOOLEAN :
          sub = [u \in {"A"} |->
                   [NewSubscription(u, "ref", Nil, NilDelivery) EXCEPT
                       !.generation = g, !.deleted = deleted,
                       !.status.subscriberURI = "u1"]]
    /\ \E l \in EditLists,
          default \in {NilDelivery, [EmptyDelivery EXCEPT !.timeout = "c9"]} :
          stored = [NewChannel("none", default, "cu") EXCEPT
                       !.subscribers = l,
                       !.statusSubs = <<[uid |-> "X", observedGeneration |-> 1,
                                         ready |-> "True"]>>]
    /\ pc = [u \in {"A"} |-> "idle"]
    /\ located = [u \in {"A"} |-> NoChannel]
    /\ pass = [u \in {"A"} |->
                 NewPass("none", NewSubscription(u, "ref", Nil, NilDelivery))]
    /\ hist = [u \in {"A"} |-> NoHistory]

\* patchSubscription up to the difference: here stored stands for the
\* located Channel object, which the step leaves as the edit left the base,
\* and located[s] receives the working copy.
Edit(s) ==
    /\ pc[s] = "idle"
    /\ \E e \in {Edited(Channelable(stored), sub[s])} :
          /\ stored' = [stored EXCEPT
                           !.subscribers = e.base.subscribers,
                           !.delivery = e.base.delivery,
                           !.statusSubs = e.base.statusSubs,
                           !.dlsURI = e.base.dlsURI]
          /\ located' = [located EXCEPT ![s] = e.after]
    /\ pc' = [pc EXCEPT ![s] = "edited"]
    /\ UNCHANGED <<sub, pass, hist>>

NextEdit == \E s \in Subs : Edit(s)

SpecEdit == InitEdit /\ [][NextEdit]_vars

\* ------------------------------------------------------------- properties
\* The last pass of s was a ReconcileKind pass whose patch was applied.
PatchedIn(s) ==
    /\ pc[s] = "idle"
    /\ ~sub[s].deleted
    /\ pass[s].kind = "reconcile"
    /\ pass[s].event = NewEvent("Normal", "SubscriberSync")

\* The stored list holds the entry of s with the values s publishes.
HoldsEntryOf(s) ==
    /\ HasUID(stored.subscribers, s)
    /\ stored.subscribers[IndexOfUID(stored.subscribers, s)]
          = SubscriberSpec(sub[s], Channelable(stored))

\* C1: when two distinct Subscriptions have each read the Channel and then
\* patched it, the stored subscriber list holds the entry of each, with the
\* values each wrote, whatever the interleaving.
C1_BothEntriesKept ==
    \A a \in Subs : \A b \in Subs \ {a} :
        (PatchedIn(a) /\ PatchedIn(b)) => (HoldsEntryOf(a) /\ HoldsEntryOf(b))

\* C2: a pass whose patch is sent after the stored subscriber list changed
\* under it (between its read and its patch) ends in PhysicalChannelSyncFailed.
C2_ConflictSurfaces ==
    \A s \in Subs :
        (pc[s] = "idle" /\ pass[s].raced /\ pass[s].patchCalls = 1)
            => pass[s].event = NewEvent("Warning", physicalChannelSyncFailed)

\* C3: a ReconcileKind pass that follows a completed sync of the same
\* Subscription, with no change in between to its spec, to the stored Channel
\* or to the resolved addresses, sends no patch: patchSubscription answers
\* (false, nil).
C3_SecondPassWritesNothing ==
    \A s \in Subs :
        (pc[s] = "idle" /\ pass[s].kind = "reconcile" /\ pass[s].repeat)
            => /\ pass[s].patchCalls = 0
               /\ pass[s].patchErr = NoEvent
               /\ pass[s].event.type # "Normal"

\* A second pass over an unchanged pair has run, the entry being in the list.
C3_Witness ==
    \E s \in Subs :
        /\ pc[s] = "idle"
        /\ pass[s].kind = "reconcile"
        /\ pass[s].repeat
        /\ HoldsEntryOf(s)

\* C4: FinalizeKind returns success (the finalizer is cleared) only when the
\* Subscription's UID is out of the stored subscriber list or the Channel is
\* gone.
C4_FinalizedOnlyWhenAbsent ==
    \A s \in Subs :
        (pc[s] = "idle" /\ pass[s].kind = "finalize"
            /\ FinalizeSucceeded(pass[s].event))
            => pass[s].absentAtReturn

C6_FinalizeRemovesEntry ==
    \A s \in Subs :
        (pc[s] = "idle" /\ pass[s].kind = "finalize" /\ pass[s].wasAdded)
            => /\ (pass[s].channelGone /\ pass[s].failed = "none")
                    => /\ sub[s].finalized
                       /\ pass[s].stages = <<"locate">>
                       /\ pass[s].patchCalls = 0
               /\ (pass[s].stages = <<"locate", "sync">> /\ pass[s].hadEntry)
                    => /\ pass[s].patchCalls = 1 \/ pass[s].patchErr # NoEvent
                       /\ pass[s].answer = "ok"
                            => /\ pass[s].absentAtReturn
                               /\ sub[s].finalized
               /\ (pass[s].stages = <<"locate", "sync">> /\ ~pass[s].hadEntry)
                    => /\ pass[s].patchCalls = 0
                       /\ pass[s].event = NoEvent
                       /\ sub[s].finalized

\* A removal was written for a Subscription while another one's entry stays.
C6_Witness ==
    \E s \in Subs :
        /\ pc[s] = "idle"
        /\ pass[s].kind = "finalize"
        /\ pass[s].wasAdded
        /\ pass[s].hadEntry
        /\ pass[s].answer = "ok"
        /\ Len(stored.subscribers) > 0

\* C7: a NotFound answer to the patch is tolerated during finalization
\* (FinalizeKind succeeds, no PhysicalChannelSyncFailed mark) and reported as
\* PhysicalChannelSyncFailed outside it.
C7_NotFoundTolerated ==
    \A s \in Subs :
        (pc[s] = "idle" /\ pass[s].answer = "NotFound")
            => IF pass[s].kind = "finalize"
               THEN /\ FinalizeSucceeded(pass[s].event)
                    /\ sub[s].status.added.reason # physicalChannelSyncFailed
               ELSE pass[s].event = NewEvent("Warning", physicalChannelSyncFailed)

\* s is a prefix of t.
IsPrefix(s, t) == Len(s) <= Len(t) /\ \A i \in 1..Len(s) : s[i] = t[i]

\* C8: ReconcileKind runs its stages in the order locate, resolve, sync,
\* status; a failed stage is the last one run and its failure is the pass's
\* outcome; after a location failure no resolver is called and no patch
\* sent, after a resolution failure no patch is sent and the
\* channel-readiness condition is as before, after a sync failure the
\* channel-readiness condition is as before.
C8_FailureAbortsPass ==
    \A s \in Subs :
        (pc[s] = "idle" /\ pass[s].kind = "reconcile")
            => /\ IsPrefix(pass[s].stages, <<"locate", "resolve", "sync", "status">>)
               /\ pass[s].failed # "none"
                    => /\ pass[s].stages[Len(pass[s].stages)] = pass[s].failed
                       /\ pass[s].event.type = "Warning"
               /\ pass[s].failed = "locate"
                    => /\ pass[s].calls = <<>>
                       /\ pass[s].patchCalls = 0
                       /\ pass[s].event.reason = channelReferenceFailed
                       /\ sub[s].status.ready = pass[s].readyBefore
               /\ pass[s].failed = "resolve"
                    => /\ pass[s].patchCalls = 0
                       /\ pass[s].answer = "none"
                       /\ sub[s].status.ready = pass[s].readyBefore
               /\ pass[s].failed = "sync"
                    => /\ pass[s].event.reason = physicalChannelSyncFailed
                       /\ sub[s].status.ready = pass[s].readyBefore

\* A sync failed in a pass of a Subscription whose channel-readiness
\* condition had been set by an earlier pass.
C8_Witness ==
    \E s \in Subs :
        /\ pc[s] = "idle"
        /\ pass[s].kind = "reconcile"
        /\ pass[s].failed = "sync"
        /\ pass[s].readyBefore.status # "Unknown"

\* The Channel holds the entry the Subscription publishes and the
\* Subscription is marked references-resolved, added-to-channel and
\* channel-ready.
Converged(s) ==
    /\ HoldsEntryOf(s)
    /\ sub[s].status.refs = Cond("True", "")
    /\ sub[s].status.added = Cond("True", "")
    /\ sub[s].status.ready = Cond("True", "")

\* C9: in a stable environment, from any Subscription status and any
\* subscriber list, repeated ReconcileKind passes lead to a state from which
\* on the Subscription stays converged and no pass sends a patch.
C9_Converges ==
    <>[](\A s \in Subs : Converged(s) /\ pass[s].patchCalls = 0)

\* A pass ran all four stages on a converged pair and wrote nothing, after
\* an earlier pass of the same Subscription had synced it.
C9_Witness ==
    \E s \in Subs :
        /\ pc[s] = "idle"
        /\ Converged(s)
        /\ pass[s].stages = <<"locate", "resolve", "sync", "status">>
        /\ pass[s].patchCalls = 0
        /\ pass[s].repeat

\* The Channel's statuses for the UID and current generation of s.
CurrentReports(s) ==
    {i \in 1..Len(stored.statusSubs) :
        /\ stored.statusSubs[i].uid = sub[s].uid
        /\ stored.statusSubs[i].observedGeneration = sub[s].generation}

\* The readiness of the first of them.
ReportedReady(s) ==
    stored.statusSubs[CHOOSE i \in CurrentReports(s) :
                          \A j \in CurrentReports(s) : i <= j].ready

\* C10: the status fold.  With a status of the Channel for the UID and the
\* current generation, readiness True, Unknown, False becomes the condition
\* ready, Unknown, Failed and the stage succeeds; with none (a status of a
\* stale generation included) the condition becomes Unknown with reason
\* SubscriptionNotMarkedReadyByChannel and the stage returns an error.
C10_StatusFold ==
    \A s \in Subs :
        pc[s] = "folded"
            => IF CurrentReports(s) # {}
               THEN /\ pass[s].event = NoEvent
                    /\ ReportedReady(s) = "True"
                         => sub[s].status.ready.status = "True"
                    /\ ReportedReady(s) = "Unknown"
                         => sub[s].status.ready.status = "Unknown"
                    /\ ReportedReady(s) = "False"
                         => sub[s].status.ready.status = "False"
               ELSE /\ sub[s].status.ready
                         = Cond("Unknown", subscriptionNotMarkedReadyByChannel)
                    /\ pass[s].event
                         = NewEvent("Warning", subscriptionNotMarkedReadyByChannel)

\* The fold found only a ready status of a stale generation for the UID, on
\* a Subscription that was channel-ready before.
C10_Witness ==
    \E s \in Subs :
        /\ pc[s] = "folded"
        /\ CurrentReports(s) = {}
        /\ \E i \in 1..Len(stored.statusSubs) :
              /\ stored.statusSubs[i].uid = sub[s].uid
              /\ stored.statusSubs[i].ready = "True"
        /\ pass[s].readyBefore = Cond("True", "")
        /\ sub[s].status.ready.status = "Unknown"

\* The operations of kind op the last pass of s made on object obj.
OpsOn(s, op, obj) ==
    {i \in 1..Len(pass[s].ops) :
        pass[s].ops[i].op = op /\ pass[s].ops[i].obj = obj}

\* C11: a pass that finds the channel-class object not ready, or ready with
\* no backing channel published, fails its location, ReconcileKind marks and
\* returns ChannelReferenceFailed, and the backing channel is neither tracked
\* nor fetched; a pass that finds it ready with a pointer tracks and fetches
\* the backing channel at most once, exactly once when the location
\* succeeds, and touches no further object.
C11_ClassIndirection ==
    \A s \in Subs :
        pass[s].kind \in {"reconcile", "finalize"}
            => /\ \A i \in 1..Len(pass[s].ops) :
                     pass[s].ops[i].obj \in {"ref", "class", "backing"}
               /\ pass[s].seen.class \in {"notready", "noref"}
                    => /\ OpsOn(s, "track", "backing") = {}
                       /\ OpsOn(s, "get", "backing") = {}
                       /\ pass[s].kind = "reconcile"
                            => /\ pass[s].failed = "locate"
                               /\ pass[s].event
                                    = NewEvent("Warning", channelReferenceFailed)
                               /\ pc[s] = "idle"
                                    => sub[s].status.refs
                                         = Cond("Unknown", channelReferenceFailed)
               /\ pass[s].seen.class = "ready"
                    => /\ Cardinality(OpsOn(s, "track", "backing")) <= 1
                       /\ Cardinality(OpsOn(s, "get", "backing")) <= 1
                       /\ pass[s].failed # "locate" /\ ~pass[s].channelGone
                            => /\ Cardinality(OpsOn(s, "track", "backing")) = 1
                               /\ Cardinality(OpsOn(s, "get", "backing")) = 1
                               /\ Len(pass[s].ops) = 6
               /\ pass[s].seen.class = "none"
                    => /\ OpsOn(s, "track", "class") = {}
                       /\ OpsOn(s, "get", "backing") = {}

\* A ReconcileKind pass found the channel-class object ready without a
\* backing channel: it fetched the object twice and failed.
C11_Witness ==
    \E s \in Subs :
        /\ pc[s] = "idle"
        /\ pass[s].kind = "reconcile"
        /\ pass[s].seen.class = "noref"
        /\ Len(pass[s].ops) = 4
        /\ pass[s].failed = "locate"

\* C12: every fetch a pass makes during channel location comes after a
\* registration of the same object with the tracker in the same pass (the
\* operations recorded are the successful ones: a failed registration ends
\* the location before the fetch).
C12_TrackedBeforeFetched ==
    \A s \in Subs :
        \A i \in 1..Len(pass[s].ops) :
            pass[s].ops[i].op = "get"
                => \E j \in 1..(i - 1) :
                      pass[s].ops[j]
                          = [op |-> "track", obj |-> pass[s].ops[i].obj]

\* A pass fetched the referenced object, the channel-class object and the
\* backing channel.
C12_Witness ==
    \E s \in Subs :
        /\ OpsOn(s, "get", "ref") # {}
        /\ OpsOn(s, "get", "class") # {}
        /\ OpsOn(s, "get", "backing") # {}

\* The calls the last pass of s made to the DestinationResolver for what.
CallsFor(s, what) ==
    {i \in 1..Len(pass[s].calls) : pass[s].calls[i].what = what}

\* The Subscription declares a dead-letter sink of its own (the pointer is
\* set); the Channel seen by the last pass of s declares one.
DeclaresSink(s) ==
    sub[s].delivery.nonnil /\ sub[s].delivery.deadLetterSink # Nil
ChannelDeclaresSink(s) ==
    pass[s].seen.delivery.nonnil /\ pass[s].seen.delivery.deadLetterSink # Nil

\* The last pass of s is a finished ReconcileKind pass whose resolution
\* stage succeeded; one whose sync succeeded too.
ResolvedIn(s) ==
    /\ pc[s] = "idle"
    /\ pass[s].kind = "reconcile"
    /\ pass[s].failed \notin {"locate", "resolve"}
SyncedIn(s) == ResolvedIn(s) /\ pass[s].failed # "sync"

\* The last pass of s ran the resolution stage as far as the dead-letter
\* sink.
ReachedSink(s) ==
    /\ pc[s] = "idle"
    /\ pass[s].kind = "reconcile"
    /\ Len(pass[s].stages) >= 2
    /\ pass[s].event.reason \notin {subscriberResolveFailed, replyResolveFailed}

C15_OwnSinkFailsOutright ==
    \A s \in Subs :
        (pc[s] = "idle" /\ pass[s].kind = "reconcile" /\ DeclaresSink(s)
            /\ \E i \in CallsFor(s, "dls") : pass[s].calls[i].answer = "fail")
            => /\ sub[s].status.deadLetterSinkURI = Nil
               /\ sub[s].status.refs = Cond("False", deadLetterSinkResolveFailed)
               /\ pass[s].event = NewEvent("Warning", deadLetterSinkResolveFailed)
               /\ pass[s].stages = <<"locate", "resolve">>
               /\ pass[s].patchCalls = 0
               /\ pass[s].answer = "none"

\* The own sink failed to resolve while the Channel had one published and
\* the status held an earlier address.
C15_Witness ==
    \E s \in Subs :
        /\ pc[s] = "idle"
        /\ pass[s].kind = "reconcile"
        /\ DeclaresSink(s)
        /\ \E i \in CallsFor(s, "dls") : pass[s].calls[i].answer = "fail"
        /\ pass[s].seen.dlsURI = "cu"
        /\ pass[s].before.deadLetterSinkURI = "old"

\* C16: the Subscription declares no dead-letter sink and the Channel
\* declares one.  While the Channel has published no address the
\* resolution fails with DeadLetterSinkResolveFailed and the pass ends
\* without a patch; once the Channel has published it a pass copies that
\* address into the status.  Neither pass calls the resolver for a
\* dead-letter sink.
C16_AwaitsChannelSink ==
    \A s \in Subs :
        (ReachedSink(s) /\ ~DeclaresSink(s) /\ ChannelDeclaresSink(s))
            => /\ CallsFor(s, "dls") = {}
               /\ pass[s].seen.dlsURI = Nil
                    => /\ pass[s].event
                            = NewEvent("Warning", deadLetterSinkResolveFailed)
                       /\ sub[s].status.refs
                            = Cond("False", deadLetterSinkResolveFailed)
                       /\ pass[s].stages = <<"locate", "resolve">>
                       /\ pass[s].patchCalls = 0
               /\ pass[s].seen.dlsURI # Nil
                    => /\ pass[s].failed # "resolve"
                       /\ sub[s].status.deadLetterSinkURI = pass[s].seen.dlsURI

\* A pass copied the Channel's address after an earlier pass had failed for
\* want of it.
C16_Witness ==
    \E s \in Subs :
        /\ ReachedSink(s)
        /\ ~DeclaresSink(s)
        /\ hist[s].awaitedSink
        /\ pass[s].failed # "resolve"
        /\ sub[s].status.deadLetterSinkURI = "cu"

\* C17 as stated: after every ReconcileKind pass each of the three resolved
\* addresses is null exactly when its Destination in the spec is nil or
\* semantically empty.
C17_NullIffEmpty ==
    \A s \in Subs :
        (pc[s] = "idle" /\ pass[s].kind = "reconcile")
            => /\ sub[s].status.subscriberURI = Nil
                    <=> isNilOrEmptyDestination(sub[s].subscriber)
               /\ sub[s].status.replyURI = Nil
                    <=> isNilOrEmptyDestination(sub[s].reply)
               /\ sub[s].status.deadLetterSinkURI = Nil
                    <=> (~sub[s].delivery.nonnil
                            \/ isNilOrEmptyDestination(
                                   sub[s].delivery.deadLetterSink))

\* C17 as amended: after a ReconcileKind pass whose resolution stage
\* succeeded, subscriberURI and replyURI are null exactly when their
\* Destination is nil or semantically empty, and deadLetterSinkURI is null
\* exactly when neither the Subscription (pointer set) nor the Channel
\* declares a dead-letter sink.
C17_NullIffUndeclared ==
    \A s \in Subs :
        ResolvedIn(s)
            => /\ sub[s].status.subscriberURI = Nil
                    <=> isNilOrEmptyDestination(sub[s].subscriber)
               /\ sub[s].status.replyURI = Nil
                    <=> isNilOrEmptyDestination(sub[s].reply)
               /\ sub[s].status.deadLetterSinkURI = Nil
                    <=> (~DeclaresSink(s) /\ ~ChannelDeclaresSink(s))

\* A resolution succeeded that cleared an earlier reply address, resolved a
\* subscriber and took the dead-letter sink from the Channel.
C17_Witness ==
    \E s \in Subs :
        /\ ResolvedIn(s)
        /\ isNilOrEmptyDestination(sub[s].reply)
        /\ pass[s].before.replyURI = "old"
        /\ ~isNilOrEmptyDestination(sub[s].subscriber)
        /\ ~DeclaresSink(s)
        /\ sub[s].status.deadLetterSinkURI = "cu"

\* C18: once the resolution stage has run on a Subscription whose
\* subscriber is nil or semantically empty, subscriberURI is null, the
\* resolver was not called for a subscriber and the stage did not fail on
\* it; the same for the reply whenever the stage got as far as the reply.
C18_EmptyResolvesToNull ==
    \A s \in Subs :
        (pc[s] = "idle" /\ pass[s].kind = "reconcile" /\ Len(pass[s].stages) >= 2)
            => /\ isNilOrEmptyDestination(sub[s].subscriber)
                    => /\ sub[s].status.subscriberURI = Nil
                       /\ CallsFor(s, "subscriber") = {}
                       /\ pass[s].event.reason # subscriberResolveFailed
               /\ (isNilOrEmptyDestination(sub[s].reply)
                      /\ pass[s].event.reason # subscriberResolveFailed)
                    => /\ sub[s].status.replyURI = Nil
                       /\ CallsFor(s, "reply") = {}
                       /\ pass[s].event.reason # replyResolveFailed

\* Addresses of an earlier spec were cleared for an empty subscriber and a
\* nil reply.
C18_Witness ==
    \E s \in Subs :
        /\ pc[s] = "idle"
        /\ pass[s].kind = "reconcile"
        /\ Len(pass[s].stages) >= 2
        /\ sub[s].subscriber = "empty"
        /\ sub[s].reply = Nil
        /\ pass[s].before.subscriberURI = "old"
        /\ pass[s].before.replyURI = "old"
        /\ sub[s].status.subscriberURI = Nil
        /\ sub[s].status.replyURI = Nil

\* C20: no call to the DestinationResolver is made with a nil or
\* semantically empty destination.
C20_ResolverNeverGivenEmpty ==
    \A s \in Subs :
        \A i \in 1..Len(pass[s].calls) :
            ~isNilOrEmptyDestination(pass[s].calls[i].dest)

\* The five retry-related fields of a delivery policy.
RetryFields == {"backoffPolicy", "backoffDelay", "retry", "timeout", "retryAfterMax"}

\* The delivery policy of the entry of s in the stored list.
EntryPolicy(s) ==
    stored.subscribers[IndexOfUID(stored.subscribers, s)].delivery

\* C14: the delivery merge.  Without an override, a Channel default that
\* sets one of the five retry fields gives the entry all five with the
\* default's values.  With an override the entry has the override's five
\* fields if the override sets one of them and no retry field otherwise;
\* never a value of the Channel default.
C14_MergeAllOrNothing ==
    \A s \in Subs :
        pc[s] = "published"
            => /\ (~sub[s].delivery.nonnil /\ stored.delivery.nonnil
                      /\ \E f \in RetryFields : stored.delivery[f] # Nil)
                    => /\ EntryPolicy(s).nonnil
                       /\ \A f \in RetryFields :
                             EntryPolicy(s)[f] = stored.delivery[f]
               /\ sub[s].delivery.nonnil
                    => \A f \in RetryFields :
                          EntryPolicy(s)[f] = sub[s].delivery[f]
               /\ (sub[s].delivery.nonnil
                      /\ \A f \in RetryFields : sub[s].delivery[f] = Nil
                      /\ sub[s].status.deadLetterSinkURI = Nil)
                    => ~EntryPolicy(s).nonnil

\* An entry took the only retry field a Channel default sets.
C14_Witness ==
    \E s \in Subs :
        /\ pc[s] = "published"
        /\ ~sub[s].delivery.nonnil
        /\ stored.delivery.retryAfterMax = "c"
        /\ \A f \in RetryFields \ {"retryAfterMax"} : stored.delivery[f] = Nil
        /\ EntryPolicy(s).retryAfterMax = "c"

\* The failures the reconciler names.
NamedFailures ==
    {channelReferenceFailed, subscriberResolveFailed, replyResolveFailed,
     deadLetterSinkResolveFailed, physicalChannelSyncFailed,
     subscriptionNotMarkedReadyByChannel}

\* A condition of s that is not True carries this reason.
HasFailureCondition(s, reason) ==
    \E c \in {sub[s].status.refs, sub[s].status.added, sub[s].status.ready} :
        c.status # "True" /\ c.reason = reason

\* C19: a pass (ReconcileKind or FinalizeKind) that returns a failure returns
\* one of the named failures and has set a condition with the same reason,
\* and a ReconcileKind pass that returns success leaves none of the
\* conditions its stages set in a failed state.
C19_ConditionAndEventTogether ==
    \A s \in Subs :
        (pc[s] = "idle" /\ pass[s].kind \in {"reconcile", "finalize"})
            => IF pass[s].event.type \in {"Warning", "error"}
               THEN /\ pass[s].event.reason \in NamedFailures
                    /\ HasFailureCondition(s, pass[s].event.reason)
               ELSE pass[s].kind = "reconcile"
                        => /\ sub[s].status.refs.status # "False"
                           /\ sub[s].status.added.status # "False"
                           /\ Len(pass[s].stages) = 4
                                => sub[s].status.ready.status # "False"


\* ------------------------------------------------------------------- C21
NoDuplicateUIDs(list) ==
    \A i, j \in 1..Len(list) : list[i].uid = list[j].uid => i = j

\* The sync of s has just written the stored list.
WroteEntry(s) ==
    /\ pc[s] = "sync"
    /\ pc'[s] = "idle"
    /\ pass'[s].kind = "reconcile"
    /\ pass'[s].answer = "ok"

\* C21: a subscriber list without duplicate UIDs has none after any sequence
\* of adding, updating and removing syncs of the Subscriptions, and the
\* entry a sync has written carries the Subscription's UID and the
\* generation the Subscription has.
C21_UniqueEntries ==
    /\ []NoDuplicateUIDs(stored.subscribers)
    /\ [][\A s \in Subs :
             WroteEntry(s)
                 => /\ HasUID(stored'.subscribers, s)
                    /\ stored'.subscribers[IndexOfUID(stored'.subscribers, s)].generation
                           = sub[s].generation]_vars

\* A's entry, written at its second generation, stands next to the foreign
\* one after B's entry was added and removed.
C21_Witness ==
    /\ Len(stored.subscribers) = 2
    /\ stored.subscribers[1].uid = "X"
    /\ stored.subscribers[2].uid = "A"
    /\ stored.subscribers[2].generation = sub["A"].generation
    /\ sub["A"].generation > 1
    /\ pass["A"].kind = "reconcile"
    /\ pass["A"].answer = "ok"
    /\ pass["B"].kind = "finalize"
    /\ pass["B"].answer = "ok"
    /\ pass["B"].hadEntry

\* ------------------------------------------------------------------- C22
\* The last pass of s is a ReconcileKind pass that ran the resolution stage.
RanResolution(s) ==
    /\ pc[s] \in {"idle", "sync"}
    /\ pass[s].kind = "reconcile"
    /\ Len(pass[s].stages) >= 2
    /\ pass[s].stages[2] = "resolve"

\* The reason a failure to resolve destination what is reported with.
FailureReasonOf(what) ==
    CASE what = "subscriber" -> subscriberResolveFailed
      [] what = "reply" -> replyResolveFailed
      [] what = "dls" -> deadLetterSinkResolveFailed

\* C22: after the resolution stage the references-resolved condition is
\* True exactly when the stage returned no failure, that is when the
\* subscriber, reply and dead-letter sink resolutions all succeeded; after
\* a failure it is Unknown or False with the reason of the step that
\* failed, which is the reason of the event returned, and it is not True
\* after any call of the resolver that failed.
C22_ResolvedIffAllSucceeded ==
    \A s \in Subs :
        RanResolution(s)
            => /\ (sub[s].status.refs = Cond("True", ""))
                      <=> (pass[s].failed # "resolve")
               /\ pass[s].failed = "resolve"
                      => /\ sub[s].status.refs.status \in {"Unknown", "False"}
                         /\ sub[s].status.refs.reason = pass[s].event.reason
                         /\ pass[s].event.reason
                               \in {subscriberResolveFailed, replyResolveFailed,
                                    deadLetterSinkResolveFailed}
               /\ \A i \in 1..Len(pass[s].calls) :
                      pass[s].calls[i].answer = "fail"
                          => /\ pass[s].failed = "resolve"
                             /\ sub[s].status.refs.reason
                                    = FailureReasonOf(pass[s].calls[i].what)

\* The resolver answered for the subscriber and failed on the reply: the
\* condition is False for the reply's reason.
C22_Witness ==
    \E s \in Subs :
        /\ RanResolution(s)
        /\ Len(pass[s].calls) = 2
        /\ pass[s].calls[1].what = "subscriber"
        /\ pass[s].calls[1].answer = "u1"
        /\ pass[s].calls[2].what = "reply"
        /\ pass[s].calls[2].answer = "fail"
        /\ sub[s].status.refs = Cond("False", replyResolveFailed)

\* ------------------------------------------------------------------- C23
\* The last pass of s is a finished ReconcileKind pass that ran the sync
\* stage.
RanSync(s) ==
    /\ pc[s] = "idle"
    /\ pass[s].kind = "reconcile"
    /\ Len(pass[s].stages) >= 3
    /\ pass[s].stages[3] = "sync"

\* The step is a FinalizeKind sync of s whose patch removed the entry.
RemovedEntry(s) ==
    /\ pc[s] = "sync"
    /\ pc'[s] = "idle"
    /\ pass'[s].kind = "finalize"
    /\ pass'[s].answer = "ok"

\* C23: after the sync stage of a ReconcileKind pass the Subscription is
\* added to the channel when the sync succeeded (a patch was applied, or
\* the difference was empty and none was sent) and is not added, for reason
\* PhysicalChannelSyncFailed, when building or sending the patch failed; a
\* FinalizeKind sync that removed the entry leaves the status as it was.
C23_AddedIffSynced ==
    /\ [](\A s \in Subs :
              RanSync(s)
                  => /\ pass[s].patchErr = NoEvent
                            => /\ pass[s].answer \in {"ok", "none"}
                               /\ sub[s].status.added = Cond("True", "")
                     /\ pass[s].patchErr # NoEvent
                            => sub[s].status.added
                                   = Cond("False", physicalChannelSyncFailed))
    /\ [][\A s \in Subs :
             RemovedEntry(s) => sub'[s].status = sub[s].status]_vars

\* A Subscription that had been added is not added any more after a pass
\* whose patch the API server refused.
C23_Witness ==
    \E s \in Subs :
        /\ RanSync(s)
        /\ hist[s].everAdded
        /\ pass[s].answer = "error"
        /\ pass[s].patchCalls = 1
        /\ sub[s].status.added = Cond("False", physicalChannelSyncFailed)

\* ------------------------------------------------------------------- C24
\* The place of a destination in the order of resolution.
RankOf(what) ==
    CASE what = "subscriber" -> 1
      [] what = "reply" -> 2
      [] what = "dls" -> 3

\* The resolution of destination what failed in the last pass of s: the
\* resolver failed on it, or the stage returned its failure.
FailedOn(s, what) ==
    \/ \E i \in CallsFor(s, what) : pass[s].calls[i].answer = "fail"
    \/ /\ pass[s].failed = "resolve"
       /\ pass[s].event.reason = FailureReasonOf(what)

\* C24: the resolver is called for the subscriber, the reply and the
\* dead-letter sink in that order, and the stage stops at the first
\* failure.  After a failure on the subscriber the resolver was called for
\* neither reply nor dead-letter sink and the status replyURI and
\* deadLetterSinkURI are what they were at the start of the pass; after a
\* failure on the reply the resolver was not called for the dead-letter
\* sink and the status deadLetterSinkURI is what it was.
C24_StopsAtFirstFailure ==
    \A s \in Subs :
        RanResolution(s)
            => /\ \A i, j \in 1..Len(pass[s].calls) :
                      i < j => RankOf(pass[s].calls[i].what)
                                  < RankOf(pass[s].calls[j].what)
               /\ FailedOn(s, "subscriber")
                      => /\ CallsFor(s, "reply") = {}
                         /\ CallsFor(s, "dls") = {}
                         /\ sub[s].status.replyURI = pass[s].before.replyURI
                         /\ sub[s].status.deadLetterSinkURI
                                = pass[s].before.deadLetterSinkURI
               /\ FailedOn(s, "reply")
                      => /\ CallsFor(s, "dls") = {}
                         /\ sub[s].status.deadLetterSinkURI
                                = pass[s].before.deadLetterSinkURI

\* The subscriber failed to resolve in a pass of a Subscription that
\* declares a reply and a dead-letter sink and whose status held addresses.
C24_Witness ==
    \E s \in Subs :
        /\ RanResolution(s)
        /\ \E i \in CallsFor(s, "subscriber") : pass[s].calls[i].answer = "fail"
        /\ ~isNilOrEmptyDestination(sub[s].reply)
        /\ DeclaresSink(s)
        /\ pass[s].before.replyURI = "old"
        /\ sub[s].status.replyURI = "old"
        /\ sub[s].status.deadLetterSinkURI = "old"

\* ------------------------------------------------------------------- C25
\* after is list with the element at i replaced by an entry of the same UID.
UpdatedAt(list, after, i) ==
    /\ Len(after) = Len(list)
    /\ after[i].uid = list[i].uid
    /\ \A j \in 1..Len(list) : j # i => after[j] = list[j]

\* after is list with one entry of uid added at the end.
AppendedTo(list, after, uid) ==
    /\ Len(after) = Len(list) + 1
    /\ after[Len(after)].uid = uid
    /\ \A j \in 1..Len(list) : after[j] = list[j]

\* after is list without its element at i.
DeletedAt(list, after, i) ==
    /\ Len(after) = Len(list) - 1
    /\ \A j \in 1..Len(after) : after[j] = IF j < i THEN list[j] ELSE list[j + 1]

\* The entries of list that are keyed by uid.
KeyedBy(list, uid) == {i \in 1..Len(list) : list[i].uid = uid}

\* The working copy differs from the located Channel base by the sync of
\* the entry of s and by nothing else.
OnlyOwnEntryChanged(base, copy, s) ==
    /\ copy.delivery = base.delivery
    /\ copy.statusSubs = base.statusSubs
    /\ copy.dlsURI = base.dlsURI
    /\ IF ~s.deleted
       THEN IF KeyedBy(base.subscribers, s.uid) # {}
            THEN \E i \in KeyedBy(base.subscribers, s.uid) :
                     UpdatedAt(base.subscribers, copy.subscribers, i)
            ELSE AppendedTo(base.subscribers, copy.subscribers, s.uid)
       ELSE IF KeyedBy(base.subscribers, s.uid) # {}
            THEN \E i \in KeyedBy(base.subscribers, s.uid) :
                     DeletedAt(base.subscribers, copy.subscribers, i)
            ELSE copy.subscribers = base.subscribers

\* C25: the sync of a Subscription changes, in the working copy, only the
\* entry keyed by its UID: an update is in place, an addition is at the end,
\* a removal deletes one element, every other entry keeps its fields and
\* its place among the others, the delivery default and the status of the
\* Channel are the located ones; and the located object, the base of the
\* difference, is after the edit what it was before.
C25_OnlyOwnEntryChanges ==
    [][\A s \in Subs :
          (pc[s] = "idle" /\ pc'[s] = "edited")
              => /\ Channelable(stored') = Channelable(stored)
                 /\ OnlyOwnEntryChanged(Channelable(stored), located'[s], sub[s])]_vars

\* The entry was updated in place between two others, which the located
\* list still shows as it was.
C25_Witness ==
    \E s \in Subs :
        /\ pc[s] = "edited"
        /\ ~sub[s].deleted
        /\ stored.subscribers = <<ForeignEntry, EntryOfA(1, "u2"), EntryOfY>>
        /\ Len(located[s].subscribers) = 3
        /\ located[s].subscribers[1] = ForeignEntry
        /\ located[s].subscribers[2].subscriberURI = "u1"
        /\ located[s].subscribers[3] = EntryOfY

\* ------------------------------------------------------------------- C26
\* The last pass of s is a finished ReconcileKind pass whose patch the API
\* server applied.
PatchApplied(s) ==
    /\ pc[s] = "idle"
    /\ pass[s].kind = "reconcile"
    /\ pass[s].patchCalls = 1
    /\ pass[s].answer = "ok"

\* The step changes the channel-readiness condition of s.
ReadinessChanges(s) == sub'[s].status.ready # sub[s].status.ready

\* C26: a ReconcileKind pass whose patch was applied ends with the sync
\* stage: it returns the Normal SubscriberSync event with the Subscription
\* added to the channel, the status stage is not run and the
\* channel-readiness condition is what it was at the start of the pass.
\* The condition changes only in a pass that ran the status stage after a
\* sync that sent no patch.
C26_PatchEndsPass ==
    /\ [](\A s \in Subs :
              PatchApplied(s)
                  => /\ pass[s].stages = <<"locate", "resolve", "sync">>
                     /\ pass[s].event = NewEvent("Normal", "SubscriberSync")
                     /\ sub[s].status.added = Cond("True", "")
                     /\ sub[s].status.ready = pass[s].readyBefore)
    /\ [][\A s \in Subs :
             ReadinessChanges(s)
                 => /\ pass'[s].kind = "reconcile"
                    /\ pass'[s].stages = <<"locate", "resolve", "sync", "status">>
                    /\ pass'[s].patchCalls = 0
                    /\ pass'[s].patchErr = NoEvent]_vars

\* The patch of a pass was applied while the Channel already reported the
\* Subscription's entry ready at its generation, and the Subscription is
\* not channel-ready.
C26_Witness ==
    \E s \in Subs :
        /\ PatchApplied(s)
        /\ sub[s].status.ready.status # "True"
        /\ \E i \in 1..Len(stored.statusSubs) :
              /\ stored.statusSubs[i].uid = s
              /\ stored.statusSubs[i].observedGeneration = sub[s].generation
              /\ stored.statusSubs[i].ready = "True"
====
